---- MODULE Spec2Model ----
(***************************************************************************)
(* Toroidal Game of Life in a terminal (src/src/main.rs).                  *)
(*                                                                         *)
(* The automaton engine (pos, pos_wrap, cell_next_state, next_generation)  *)
(* is modelled as operators that compute the way the Rust code computes;   *)
(* main() is modelled as a state machine, one action per fallible call or  *)
(* loop step.  Grids are sequences of BOOLEAN; the Rust index i is the     *)
(* TLA+ index i + 1.                                                       *)
(***************************************************************************)
EXTENDS Integers, Sequences, FiniteSets, TLC

VARIABLES
    pc,          \* position of main(): the next call to execute
    exit,        \* "none" while running, then "ok" | "err" | "panic"
    raw_mode,    \* terminal raw mode is enabled
    alt_screen,  \* terminal shows the alternate screen
    width,       \* main.rs:97
    height,      \* main.rs:98
    grid,        \* main.rs:100, 120
    seed,        \* history: the grid as first seeded (main.rs:100)
    rendered,    \* history: the grid handed to the last successful draw
    gen,         \* history: number of next_generation calls made by the loop
    frames,      \* history: number of successful draws
    event,       \* the event returned by the last event::read (main.rs:112)
    probe        \* arguments and result of a direct call of pos_wrap

vars == <<pc, exit, raw_mode, alt_screen, width, height, grid, seed,
          rendered, gen, frames, event, probe>>

----------------------------------------------------------------------------
(* Bounds of the model *)

\* every grid of at most MaxCells cells and sides of at most MaxSmallSide is
\* a possible seed; larger grids are seeded with patterned boards only
MaxCells == 9
MaxSmallSide == 3
\* terminal sides range over 1..MaxSide
MaxSide == 7
\* the loop advances at most MaxGen generations
MaxGen == 4
\* direct calls of pos_wrap take row, col in -MaxCoord..MaxCoord
MaxCoord == 9

----------------------------------------------------------------------------
(* Automaton engine *)

Panic == "panic"

\* main.rs:15-17
pos(row, col, w) == row * w + col

\* Rust's `%` on isize: remainder truncated toward zero (b > 0 here)
rem_trunc(a, b) == IF a >= 0 THEN a % b ELSE 0 - ((0 - a) % b)

\* mutant: the plain `%` operator where rem_euclid is needed
rem_euclid_trunc(a, b) == rem_trunc(a, b)

\* mutant: a negative remainder made positive by abs() instead of adding b
rem_euclid_abs(a, b) ==
    LET r == rem_trunc(a, b)
    IN  IF r < 0 THEN 0 - r ELSE r

\* isize::rem_euclid as the standard library computes it:
\* r = a % b; if r < 0 { r + |b| } else { r }
rem_euclid(a, b) ==
    LET r == rem_trunc(a, b)
    IN  IF r < 0 THEN r + b ELSE r

\* main.rs:20-24
pos_wrap(row, col, w, h) ==
    LET r == rem_euclid(row, h)
        c == rem_euclid(col, w)
    IN  pos(r, c, w)

\* the slice index expression grid[i]: an index out of range panics
InRange(g, i) == i >= 0 /\ i < Len(g)

\* mutant: the exclusive ranges -1..1 in place of -1..=1
Offsets_exclusive ==
    << <<-1, -1>>, <<-1, 0>>,
       << 0, -1>>, << 0, 0>> >>

\* the (dr, dc) pairs in the order the nested loops of main.rs:31-32 visit them
Offsets ==
    << <<-1, -1>>, <<-1, 0>>, <<-1, 1>>,
       << 0, -1>>, << 0, 0>>, << 0, 1>>,
       << 1, -1>>, << 1, 0>>, << 1, 1>> >>

\* the indices cell_next_state reads: main.rs:36 for each offset but (0,0),
\* then main.rs:42
ReadIndices(row, col, w, h) ==
    { pos_wrap(row + Offsets[k][1], col + Offsets[k][2], w, h) :
        k \in { j \in 1..Len(Offsets) : Offsets[j] # <<0, 0>> } }
    \cup { pos_wrap(row, col, w, h) }

\* main.rs:30-40: the loop body run for Offsets[k..9], starting from count n
RECURSIVE CountNeighbors(_, _, _, _, _, _, _)
CountNeighbors(g, row, col, w, h, k, n) ==
    IF k > Len(Offsets) THEN n
    ELSE LET dr == Offsets[k][1]
             dc == Offsets[k][2]
         IN  IF dr = 0 /\ dc = 0
             THEN CountNeighbors(g, row, col, w, h, k + 1, n)
             ELSE IF g[pos_wrap(row + dr, col + dc, w, h) + 1]
                  THEN CountNeighbors(g, row, col, w, h, k + 1, n + 1)
                  ELSE CountNeighbors(g, row, col, w, h, k + 1, n)

\* mutant: the (true, 3) arm left out
rule_no_survive3(alive, neighbors) ==
    CASE alive /\ neighbors = 2 -> TRUE
      [] ~alive /\ neighbors = 3 -> TRUE
      [] OTHER -> FALSE

\* mutant: no death by overcrowding (a live cell survives on 2 or more)
rule_no_overcrowding(alive, neighbors) ==
    CASE alive /\ neighbors >= 2 -> TRUE
      [] ~alive /\ neighbors = 3 -> TRUE
      [] OTHER -> FALSE

\* mutant: the arms' results negated (the function answers "dies?")
rule_negated(alive, neighbors) ==
    CASE alive /\ neighbors = 2 -> FALSE
      [] alive /\ neighbors = 3 -> FALSE
      [] ~alive /\ neighbors = 3 -> FALSE
      [] OTHER -> TRUE

\* main.rs:48-52
rule(alive, neighbors) ==
    CASE alive /\ neighbors = 2 -> TRUE
      [] alive /\ neighbors = 3 -> TRUE
      [] ~alive /\ neighbors = 3 -> TRUE
      [] OTHER -> FALSE

\* whether a call of cell_next_state panics: some index it reads is out of range
cell_panics(g, row, col, w, h) ==
    \E i \in ReadIndices(row, col, w, h) : ~InRange(g, i)

\* main.rs:28-53 (for a call that does not panic)
cell_next_state(g, row, col, w, h) ==
    LET neighbors == CountNeighbors(g, row, col, w, h, 1, 0)
        alive == g[pos_wrap(row, col, w, h) + 1]
    IN  rule(alive, neighbors)

\* main.rs:59: the inner map over 0..width for one row, cols c..width-1
RECURSIVE RowCells(_, _, _, _, _)
RowCells(g, row, c, w, h) ==
    IF c >= w THEN <<>>
    ELSE <<cell_next_state(g, row, c, w, h)>> \o RowCells(g, row, c + 1, w, h)

\* mutant: the inclusive range 0..=height
RowsEnd_inclusive(h) == h + 1

\* the end (exclusive) of the outer range 0..height of main.rs:57
RowsEnd(h) == h

\* main.rs:57-61: flat_map over rows r..RowsEnd-1, collected
RECURSIVE FlatRows(_, _, _, _)
FlatRows(g, r, w, h) ==
    IF r >= RowsEnd(h) THEN <<>>
    ELSE RowCells(g, r, 0, w, h) \o FlatRows(g, r + 1, w, h)

\* whether a call of next_generation panics: a panic in any cell unwinds
generation_panics(g, w, h) ==
    \E r \in 0..(RowsEnd(h) - 1), c \in 0..(w - 1) : cell_panics(g, r, c, w, h)

\* main.rs:56-62 (for a call that does not panic)
next_generation(g, w, h) == FlatRows(g, 0, w, h)

----------------------------------------------------------------------------
(* Boards the random seeding of main.rs:100 can produce *)

AllDead(w, h) == [i \in 1..(w * h) |-> FALSE]
AllAlive(w, h) == [i \in 1..(w * h) |-> TRUE]

\* the board whose live cells are exactly the cells of `cells` (row, col pairs),
\* each taken on the torus
Board(cells, w, h) ==
    [i \in 1..(w * h) |->
        \E p \in cells : (p[1] % h) * w + (p[2] % w) = i - 1]

\* the standard 5-cell glider with start position (r, c)
GliderCells(r, c) ==
    { <<r, c + 1>>, <<r + 1, c + 2>>, <<r + 2, c>>, <<r + 2, c + 1>>, <<r + 2, c + 2>> }

Glider(r, c, w, h) == Board(GliderCells(r, c), w, h)

Gliders(w, h) ==
    IF w >= 6 /\ h >= 6
    THEN { Glider(r, c, w, h) : r \in 0..(h - 1), c \in 0..(w - 1) }
    ELSE {}

\* every board when the board is small, else the patterned boards
Seeds(w, h) ==
    IF w * h <= MaxCells /\ w <= MaxSmallSide /\ h <= MaxSmallSide
    THEN [1..(w * h) -> BOOLEAN]
    ELSE { AllDead(w, h), AllAlive(w, h) } \cup Gliders(w, h)

----------------------------------------------------------------------------
(* Events of crossterm::event::read *)

KeyCodes == { "q", "Q", "Esc" }
NoEvent == [kind |-> "None", code |-> "-"]
Events ==
    { [kind |-> "Key", code |-> k] : k \in KeyCodes }
    \cup { [kind |-> "Resize", code |-> "-"] }

\* mutant: the key compared without regard to case
IsQuit_any_case(e) ==
    e.kind = "Key" /\ (e.code = "q" \/ e.code = "Q" \/ e.code = "Esc")

\* main.rs:112-113
IsQuit(e) == e.kind = "Key" /\ (e.code = "q" \/ e.code = "Esc")

NoProbe == [row |-> 0, col |-> 0, idx |-> -1]

----------------------------------------------------------------------------
(* main() *)

Init ==
    /\ pc = "enable_raw_mode"
    /\ exit = "none"
    /\ raw_mode = FALSE
    /\ alt_screen = FALSE
    /\ width = 0
    /\ height = 0
    /\ grid = <<>>
    /\ seed = <<>>
    /\ rendered = <<>>
    /\ gen = 0
    /\ frames = 0
    /\ event = NoEvent
    /\ probe = NoProbe

\* mutant: an error remembered, and the terminal restored before returning it
Fail_after_restore ==
    /\ pc' = "disable_raw_mode"
    /\ exit' = "err"

\* the `?` operator on an Err: main returns the error at once
Fail ==
    /\ pc' = "done"
    /\ exit' = "err"

\* main.rs:91
EnableRawMode ==
    /\ pc = "enable_raw_mode"
    /\ \E ok \in BOOLEAN :
        IF ok
        THEN /\ raw_mode' = TRUE
             /\ pc' = "enter_alt_screen"
             /\ UNCHANGED exit
        ELSE /\ Fail
             /\ UNCHANGED raw_mode
    /\ UNCHANGED <<alt_screen, width, height, grid, seed, rendered, gen,
                   frames, event, probe>>

\* main.rs:92
EnterAlternateScreen ==
    /\ pc = "enter_alt_screen"
    /\ \E ok \in BOOLEAN :
        IF ok
        THEN /\ alt_screen' = TRUE
             /\ pc' = "new_terminal"
             /\ UNCHANGED exit
        ELSE /\ Fail
             /\ UNCHANGED alt_screen
    /\ UNCHANGED <<raw_mode, width, height, grid, seed, rendered, gen,
                   frames, event, probe>>

\* main.rs:93
NewTerminal ==
    /\ pc = "new_terminal"
    /\ \E ok \in BOOLEAN :
        IF ok
        THEN /\ pc' = "size"
             /\ UNCHANGED exit
        ELSE Fail
    /\ UNCHANGED <<raw_mode, alt_screen, width, height, grid, seed, rendered,
                   gen, frames, event, probe>>

\* main.rs:96-100: query the size, then seed the grid at random
SizeAndSeed ==
    /\ pc = "size"
    /\ \/ /\ Fail
          /\ UNCHANGED <<width, height, grid, seed>>
       \/ \E w \in 1..MaxSide, h \in 1..MaxSide :
            \E g \in Seeds(w, h) :
                /\ width' = w
                /\ height' = h
                /\ grid' = g
                /\ seed' = g
                /\ pc' = "draw"
                /\ UNCHANGED exit
    /\ UNCHANGED <<raw_mode, alt_screen, rendered, gen, frames, event, probe>>

\* main.rs:106-108
Draw ==
    /\ pc = "draw"
    /\ \E ok \in BOOLEAN :
        IF ok
        THEN /\ rendered' = grid
             /\ frames' = frames + 1
             /\ pc' = "poll"
             /\ UNCHANGED exit
        ELSE /\ Fail
             /\ UNCHANGED <<rendered, frames>>
    /\ UNCHANGED <<raw_mode, alt_screen, width, height, grid, seed, gen,
                   event, probe>>

\* main.rs:111: Ok(true), Ok(false) on timeout, or Err
Poll ==
    /\ pc = "poll"
    /\ \E r \in { "ready", "timeout", "err" } :
        CASE r = "ready"   -> pc' = "read" /\ UNCHANGED exit
          [] r = "timeout" -> pc' = "advance" /\ UNCHANGED exit
          [] r = "err"     -> Fail
    /\ UNCHANGED <<raw_mode, alt_screen, width, height, grid, seed, rendered,
                   gen, frames, event, probe>>

\* mutant: the quit key acted on only after the grid has been advanced
Read_late_break ==
    /\ pc = "read"
    /\ \/ /\ Fail
          /\ UNCHANGED <<event, grid, gen>>
       \/ \E e \in Events :
            /\ event' = e
            /\ IF IsQuit(e)
               THEN /\ grid' = next_generation(grid, width, height)
                    /\ gen' = gen + 1
                    /\ pc' = "disable_raw_mode"
               ELSE /\ pc' = "advance"
                    /\ UNCHANGED <<grid, gen>>
            /\ UNCHANGED exit
    /\ UNCHANGED <<raw_mode, alt_screen, width, height, seed, rendered,
                   frames, probe>>

\* main.rs:112-116: read an event; break on a quit key
Read ==
    /\ pc = "read"
    /\ \/ /\ Fail
          /\ UNCHANGED event
       \/ \E e \in Events :
            /\ event' = e
            /\ pc' = IF IsQuit(e) THEN "disable_raw_mode" ELSE "advance"
            /\ UNCHANGED exit
    /\ UNCHANGED <<raw_mode, alt_screen, width, height, grid, seed, rendered,
                   gen, frames, probe>>

\* main.rs:120, then back to the top of the loop.  The event bound at
\* main.rs:112 is out of scope here; gen < MaxGen bounds the run.
Advance ==
    /\ pc = "advance"
    /\ gen < MaxGen
    /\ IF generation_panics(grid, width, height)
       THEN /\ pc' = "done"
            /\ exit' = Panic
            /\ UNCHANGED <<grid, gen>>
       ELSE /\ grid' = next_generation(grid, width, height)
            /\ gen' = gen + 1
            /\ pc' = "draw"
            /\ UNCHANGED exit
    /\ event' = NoEvent
    /\ UNCHANGED <<raw_mode, alt_screen, width, height, seed, rendered,
                   frames, probe>>

\* main.rs:124
DisableRawMode ==
    /\ pc = "disable_raw_mode"
    /\ \E ok \in BOOLEAN :
        IF ok
        THEN /\ raw_mode' = FALSE
             /\ pc' = "leave_alt_screen"
             /\ UNCHANGED exit
        ELSE /\ Fail
             /\ UNCHANGED raw_mode
    /\ UNCHANGED <<alt_screen, width, height, grid, seed, rendered, gen,
                   frames, event, probe>>

\* main.rs:125-127
LeaveAlternateScreen ==
    /\ pc = "leave_alt_screen"
    /\ \E ok \in BOOLEAN :
        IF ok
        THEN /\ alt_screen' = FALSE
             /\ pc' = "done"
             /\ exit' = "ok"
        ELSE /\ Fail
             /\ UNCHANGED alt_screen
    /\ UNCHANGED <<raw_mode, width, height, grid, seed, rendered, gen,
                   frames, event, probe>>

Next ==
    \/ EnableRawMode
    \/ EnterAlternateScreen
    \/ NewTerminal
    \/ SizeAndSeed
    \/ Draw
    \/ Poll
    \/ Read
    \/ Advance
    \/ DisableRawMode
    \/ LeaveAlternateScreen

Spec == Init /\ [][Next]_vars

----------------------------------------------------------------------------
(* Direct calls of pos_wrap with arbitrary signed coordinates *)

InitWrap ==
    /\ pc = "call"
    /\ exit = "none"
    /\ raw_mode = FALSE
    /\ alt_screen = FALSE
    /\ width \in 1..MaxSide
    /\ height \in 1..MaxSide
    /\ grid = <<>>
    /\ seed = <<>>
    /\ rendered = <<>>
    /\ gen = 0
    /\ frames = 0
    /\ event = NoEvent
    /\ \E row \in (0 - MaxCoord)..MaxCoord, col \in (0 - MaxCoord)..MaxCoord :
        probe = [row |-> row, col |-> col, idx |-> -1]

\* main.rs:20-24 applied to (probe.row, probe.col, width, height)
CallPosWrap ==
    /\ pc = "call"
    /\ probe' = [probe EXCEPT !.idx = pos_wrap(probe.row, probe.col, width, height)]
    /\ pc' = "returned"
    /\ UNCHANGED <<exit, raw_mode, alt_screen, width, height, grid, seed,
                   rendered, gen, frames, event>>

NextWrap == CallPosWrap

SpecWrap == InitWrap /\ [][NextWrap]_vars

----------------------------------------------------------------------------
(* Reference definitions the properties are stated with: the rule of Life   *)
(* on a torus, written with sets and the mathematical modulus               *)

Seeded == width >= 1 /\ height >= 1

Rows == 0..(height - 1)
Cols == 0..(width - 1)

NeighbourOffsets == ((-1..1) \X (-1..1)) \ { <<0, 0>> }

TorusCell(g, row, col, w, h) == g[(row % h) * w + (col % w) + 1]

LiveNeighbours(g, row, col, w, h) ==
    Cardinality({ d \in NeighbourOffsets : TorusCell(g, row + d[1], col + d[2], w, h) })

LifeRule(g, row, col, w, h) ==
    LET n == LiveNeighbours(g, row, col, w, h)
    IN  \/ TorusCell(g, row, col, w, h) /\ n \in {2, 3}
        \/ ~TorusCell(g, row, col, w, h) /\ n = 3

LifeStep(g, w, h) ==
    [i \in 1..(w * h) |-> LifeRule(g, (i - 1) \div w, (i - 1) % w, w, h)]

\* the loop has been left, by the break or by a returned error
Stopped == pc \in { "disable_raw_mode", "leave_alt_screen", "done" }

----------------------------------------------------------------------------
(* C1 *)

\* C1: for every grid next_generation is about to be called on (every grid the
\* loop holds) and every cell (row, col) in range, cell_next_state is alive exactly when the cell is alive with 2 or 3 live
\* neighbours or dead with exactly 3, the neighbours being the 8 offset cells
\* read on the torus; so n = 3 gives alive whatever the state, a live cell
\* with n in {0,1,4,..,8} dies and a dead cell with n # 3 stays dead.
C1_CellRule ==
    (pc = "advance" /\ Len(grid) = width * height) =>
        \A row \in Rows, col \in Cols :
            LET n == LiveNeighbours(grid, row, col, width, height)
                alive == TorusCell(grid, row, col, width, height)
                next == cell_next_state(grid, row, col, width, height)
            IN  /\ next = LifeRule(grid, row, col, width, height)
                /\ (n = 3) => next
                /\ (alive /\ n \in {0, 1, 4, 5, 6, 7, 8}) => ~next
                /\ (~alive /\ n # 3) => ~next

\* a grid the loop has advanced from, holding a survivor, a birth, an
\* overcrowded live cell and a dead cell that stays dead
C1_Witness ==
    /\ Seeded
    /\ gen >= 1
    /\ \E row \in Rows, col \in Cols :
        /\ rendered[row * width + col + 1]
        /\ LiveNeighbours(rendered, row, col, width, height) = 2
        /\ grid[row * width + col + 1]
    /\ \E row \in Rows, col \in Cols :
        /\ ~rendered[row * width + col + 1]
        /\ LiveNeighbours(rendered, row, col, width, height) = 3
        /\ grid[row * width + col + 1]
    /\ \E row \in Rows, col \in Cols :
        /\ rendered[row * width + col + 1]
        /\ LiveNeighbours(rendered, row, col, width, height) >= 4
        /\ ~grid[row * width + col + 1]
    /\ \E row \in Rows, col \in Cols :
        /\ ~rendered[row * width + col + 1]
        /\ LiveNeighbours(rendered, row, col, width, height) = 2
        /\ ~grid[row * width + col + 1]

----------------------------------------------------------------------------
(* C2 *)

\* C2 as stated: the fully-alive 3x3 torus is a fixed point, i.e. one
\* next_generation step from it gives the same grid.
C2_AllAlive3x3Fixed ==
    (width = 3 /\ height = 3 /\ seed = AllAlive(3, 3) /\ gen = 1) =>
        grid = seed

\* C2 amended: one next_generation step from the fully-alive 3x3 torus gives
\* the fully-dead 3x3 grid (each cell counts 8 live neighbours and dies),
\* which then stays dead.
C2_AllAlive3x3Dies ==
    (width = 3 /\ height = 3 /\ seed = AllAlive(3, 3) /\ gen >= 1) =>
        grid = AllDead(3, 3)

C2_Witness ==
    /\ width = 3 /\ height = 3
    /\ seed = AllAlive(3, 3)
    /\ gen = 1
    /\ rendered = seed
    /\ pc = "draw"

----------------------------------------------------------------------------
(* C3 *)

\* C3: on a grid with width >= 6 and height >= 6 seeded with only the
\* standard glider at start position (r, c), after 4 next_generation steps
\* the live cells are exactly the glider at (r + 1, c + 1) (positions taken on
\* the torus when the pattern reaches an edge), all other cells dead.
C3_Glider ==
    (width >= 6 /\ height >= 6 /\ gen = 4) =>
        \A r \in Rows, c \in Cols :
            seed = Glider(r, c, width, height) =>
                grid = Glider(r + 1, c + 1, width, height)

\* a glider that stays clear of the edges, four generations on
C3_Witness ==
    /\ width >= 6 /\ height >= 6
    /\ gen = 4
    /\ \E r \in Rows, c \in Cols :
        /\ r + 3 < height
        /\ c + 3 < width
        /\ seed = Glider(r, c, width, height)
        /\ grid = Glider(r + 1, c + 1, width, height)
        /\ Cardinality({ i \in 1..Len(grid) : grid[i] }) = 5

----------------------------------------------------------------------------
(* C4 *)

\* C4: if the grid is seeded fully dead, of any size, it is fully dead after
\* any number of next_generation steps.
C4_DeadStaysDead ==
    (Seeded /\ seed = AllDead(width, height)) =>
        grid = AllDead(width, height)

C4_Witness ==
    /\ width >= 2 /\ height >= 2
    /\ seed = AllDead(width, height)
    /\ gen >= 2
    /\ grid = AllDead(width, height)

----------------------------------------------------------------------------
(* C5 *)

\* C5: pos_wrap(row, col, width, height) equals
\* pos_wrap(row + height, col + width, width, height) for all width,
\* height >= 1 and all row, col, negative and overflowing ones included.
C5_Periodic ==
    (pc = "returned") =>
        probe.idx = pos_wrap(probe.row + height, probe.col + width, width, height)

\* a call with a negative row and a column past the right edge
C5_Witness ==
    /\ pc = "returned"
    /\ probe.row < 0
    /\ probe.col > width
    /\ probe.idx >= 0

----------------------------------------------------------------------------
(* C6 *)

ReadsQuit == pc = "read" /\ event' # event /\ IsQuit(event')

\* C6: a step that reads 'q' or Escape leaves the loop without calling
\* next_generation: the grid is unchanged and is the grid rendered in this
\* iteration; and once the loop is left no render, poll or advance happens
\* (grid, generation count, frame count and rendered grid stay as they are).
C6_QuitStops ==
    [][ /\ ReadsQuit =>
            /\ pc' = "disable_raw_mode"
            /\ grid' = grid
            /\ grid = rendered
            /\ gen' = gen
            /\ frames' = frames
        /\ Stopped =>
            /\ Stopped'
            /\ UNCHANGED <<grid, gen, frames, rendered>>
      ]_vars

\* the loop was left on a quit key after at least one advance
C6_Witness ==
    /\ IsQuit(event)
    /\ pc = "leave_alt_screen"
    /\ gen >= 1
    /\ grid = rendered
    /\ grid # seed

----------------------------------------------------------------------------
(* C7 *)

\* C7: next_generation returns exactly width * height entries, so the grid
\* has width * height entries in every state, and width and height never
\* change once set.
C7_GridSize ==
    [][ /\ Len(grid') = width' * height'
        /\ (pc = "advance" /\ pc' = "draw") =>
            Len(next_generation(grid, width, height)) = width * height
        /\ (pc # "size") => (width' = width /\ height' = height)
      ]_vars

C7_Witness ==
    /\ width >= 2 /\ height >= 2 /\ width # height
    /\ gen >= 2
    /\ Len(grid) = width * height

----------------------------------------------------------------------------
(* C8 *)

\* C8: pos_wrap is the true modulus (row -1 is row height-1, col -1 is col
\* width-1, row height is row 0, col width is col 0), and when next_generation
\* is about to be called each of the 9 indices cell_next_state reads for a
\* cell in range is in [0, width*height).
C8_ReadsInBounds ==
    (pc = "advance") =>
        \A row \in Rows, col \in Cols :
            /\ pos_wrap(-1, col, width, height) = pos(height - 1, col, width)
            /\ pos_wrap(row, -1, width, height) = pos(row, width - 1, width)
            /\ pos_wrap(height, col, width, height) = pos(0, col, width)
            /\ pos_wrap(row, width, width, height) = pos(row, 0, width)
            /\ \A i \in ReadIndices(row, col, width, height) :
                i >= 0 /\ i < width * height

\* the loop has advanced a grid wide and high enough for a cell to have 9
\* distinct indices
C8_Witness ==
    /\ width >= 3 /\ height >= 3
    /\ gen >= 1
    /\ pc = "advance"
    /\ Cardinality(ReadIndices(0, 0, width, height)) = 9

----------------------------------------------------------------------------
(* C9 *)

FailsInLoop == pc \in { "draw", "poll", "read" } /\ exit' = "err"

\* C9: a failed draw, poll or read ends main at once with the error: the
\* grid keeps its value, next_generation is not called, the restore steps are
\* not run (raw mode and the alternate screen stay on), and nothing happens
\* after main has returned.
C9_FailureAborts ==
    [][ /\ FailsInLoop =>
            /\ pc' = "done"
            /\ UNCHANGED <<grid, gen, frames, rendered>>
            /\ raw_mode' /\ alt_screen'
        /\ pc # "done"
      ]_vars

\* main returned an error from inside the loop, after an advance
C9_Witness ==
    /\ pc = "done"
    /\ exit = "err"
    /\ gen >= 1
    /\ raw_mode /\ alt_screen
    /\ ~IsQuit(event)

----------------------------------------------------------------------------
(* C10 *)

ReadsOther ==
    /\ pc = "read"
    /\ event' # event
    /\ ~(event'.kind = "Key" /\ event'.code \in { "q", "Esc" })

\* C10: only 'q' and Escape stop the loop.  A poll that does not fail goes on
\* to the read or, on timeout, to the advance; a read of any other key ('Q'
\* included) or of a non-key event goes on to the advance with the grid
\* untouched; the advance replaces the grid by the next generation of the
\* rendered grid, once, and returns to the draw; each draw renders the
\* current grid, so generation k is frame k + 1.
C10_OnlyQuitStops ==
    [][ /\ (pc = "poll" /\ exit' = "none") =>
            /\ pc' \in { "read", "advance" }
            /\ UNCHANGED <<grid, gen, frames>>
        /\ ReadsOther =>
            /\ pc' = "advance"
            /\ UNCHANGED <<grid, gen, frames>>
        /\ (pc = "advance") =>
            /\ pc' = "draw"
            /\ exit' = "none"
            /\ grid = rendered
            /\ grid' = LifeStep(rendered, width, height)
            /\ gen' = gen + 1
            /\ frames' = frames
            /\ frames = gen + 1
        /\ (pc = "draw" /\ exit' = "none") =>
            /\ pc' = "poll"
            /\ rendered' = grid
            /\ frames' = frames + 1
            /\ frames = gen
      ]_vars

\* the loop is still running after reading an uppercase 'Q', about to advance
\* a grid that was itself produced by an advance
C10_Witness ==
    /\ pc = "advance"
    /\ exit = "none"
    /\ event = [kind |-> "Key", code |-> "Q"]
    /\ gen >= 1
    /\ frames = gen + 1
    /\ rendered = grid
    /\ grid # seed

====
